---- MODULE Spec2Model ----
(***************************************************************************)
(* Convolution2D layer of keras-js (src/layers/convolutional/              *)
(* Convolution2D.js): constructor, setWeights, _calcOutputShape,           *)
(* _padInput, _im2col, _w2row and call, over strided ndarray views.        *)
(***************************************************************************)
EXTENDS Integers, Sequences, FiniteSets, TLC

\* ---------------------------------------------------------------- bounds
MaxFilters == 2      \* nbFilter ranges over 1..MaxFilters
MaxKernel == 2       \* nbRow, nbCol range over 1..MaxKernel
MaxStride == 2       \* subsample components range over 1..MaxStride
MaxDim == 3          \* input rows and columns range over 1..MaxDim
MaxChannels == 2     \* input channels range over 1..MaxChannels
MaxSeed == 0         \* data patterns 0..MaxSeed
LifeDim == 2         \* input rows and columns in Spec
ShapeKernel == 3     \* nbRow, nbCol in SpecShape
ShapeDim == 3        \* input rows and columns in SpecShape
CtorMax == 1         \* numeric attributes in SpecCtor range over -1..CtorMax

\* ------------------------------------------------- numbers (Float32 cells)
\* A read outside a typed array yields undefined, stored in a Float32Array
\* as NaN; NaN is absorbing for + and *.
NaN == -1000000

Add(a, b) == IF a = NaN \/ b = NaN THEN NaN ELSE a + b

Mul(a, b) == IF a = NaN \/ b = NaN THEN NaN ELSE a * b

Max(a, b) == IF a >= b THEN a ELSE b

\* product of the extents of a shape (tensors here have at most 4 axes)
Prod(s) ==
  CASE Len(s) = 0 -> 1
    [] Len(s) = 1 -> s[1]
    [] Len(s) = 2 -> s[1] * s[2]
    [] Len(s) = 3 -> s[1] * s[2] * s[3]
    [] Len(s) = 4 -> s[1] * s[2] * s[3] * s[4]

Dot(a, b) ==
  CASE Len(a) = 0 -> 0
    [] Len(a) = 1 -> a[1] * b[1]
    [] Len(a) = 2 -> a[1] * b[1] + a[2] * b[2]
    [] Len(a) = 3 -> a[1] * b[1] + a[2] * b[2] + a[3] * b[3]
    [] Len(a) = 4 -> a[1] * b[1] + a[2] * b[2] + a[3] * b[3] + a[4] * b[4]

\* ------------------------------------------------------- ndarray views
\* A view is [data, shape, stride, offset]; data is the flat buffer
\* (cell o of the buffer is data[o + 1]), axes are numbered from 0 in the
\* source and from 1 in the tuples here.
RowMajor(shape) == [k \in 1..Len(shape) |-> Prod(SubSeq(shape, k + 1, Len(shape)))]

NdArray(data, shape) ==
  [data |-> data, shape |-> shape, stride |-> RowMajor(shape), offset |-> 0]

\* new Tensor([], shape): a zero-filled row-major buffer of prod(shape) cells
NewTensor(shape) == NdArray([i \in 1..Prod(shape) |-> 0], shape)

\* a typed array cannot be allocated with a negative length (RangeError)
CanAlloc(shape) == Prod(shape) >= 0

NoTensor == NdArray(<<>>, <<>>)

Off(v, idx) == v.offset + Dot(idx, v.stride)

\* a read of cell o of a typed array (undefined, hence NaN, outside it)
ReadAt(data, o) == IF o >= 0 /\ o < Len(data) THEN data[o + 1] ELSE NaN

\* a write of cell o of a typed array (ignored outside it)
WriteAt(data, o, val) ==
  IF o >= 0 /\ o < Len(data) THEN [data EXCEPT ![o + 1] = val] ELSE data

Get(v, idx) == ReadAt(v.data, Off(v, idx))

\* tensor.transpose(p0, p1, ...): axis k of the result is axis p_k of v
Transpose(v, perm) ==
  [v EXCEPT !.shape = [k \in 1..Len(perm) |-> v.shape[perm[k] + 1]],
            !.stride = [k \in 1..Len(perm) |-> v.stride[perm[k] + 1]]]

\* tensor.hi(h0, h1, ...): keep the cells below the given upper corner
Hi(v, h) == [v EXCEPT !.shape = h]

\* tensor.lo(l0, l1, ...): drop the cells before the given lower corner
Lo(v, l) ==
  [v EXCEPT !.shape = [k \in 1..Len(l) |-> v.shape[k] - l[k]],
            !.offset = v.offset + Dot(l, v.stride)]

RECURSIVE KeepAxes(_, _)
KeepAxes(s, sel) ==
  IF Len(s) = 0 THEN <<>>
  ELSE IF Head(sel) < 0 THEN <<Head(s)>> \o KeepAxes(Tail(s), Tail(sel))
       ELSE KeepAxes(Tail(s), Tail(sel))

\* tensor.pick(s0, s1, ...): fix the axes with s_k >= 0, keep the others
\* (null is written -1)
Pick(v, sel) ==
  [v EXCEPT !.shape = KeepAxes(v.shape, sel),
            !.stride = KeepAxes(v.stride, sel),
            !.offset = v.offset
                + Dot([k \in 1..Len(sel) |-> IF sel[k] < 0 THEN 0 ELSE sel[k]], v.stride)]

\* number of cells a loop nest over shape visits (none when an extent is <= 0)
Count(shape) == IF \E k \in 1..Len(shape) : shape[k] <= 0 THEN 0 ELSE Prod(shape)

\* the n-th (from 0) index of the loop nest over shape, last axis fastest;
\* rm is RowMajor(shape)
Unravel(n, shape, rm) == [k \in 1..Len(shape) |-> (n \div rm[k]) % shape[k]]

\* TRUE of every buffer; testing it at the head of a loop step computes the
\* buffer built so far before the step, as the loops of the source do
Evaluated(data) == Len(data) >= 0

AssignCell(data, dest, src, idx) == WriteAt(data, Off(dest, idx), Get(src, idx))

RECURSIVE AssignLoop(_, _, _, _, _, _)
AssignLoop(data, dest, src, rm, cnt, n) ==
  IF n >= cnt \/ ~Evaluated(data) THEN data
  ELSE AssignLoop(AssignCell(data, dest, src, Unravel(n, dest.shape, rm)),
                  dest, src, rm, cnt, n + 1)

\* ops.assign(dest, src): dest[idx] = src[idx] for every index of dest
Assign(dest, src) ==
  [dest EXCEPT !.data = AssignLoop(dest.data, dest, src, RowMajor(dest.shape),
                                   Count(dest.shape), 0)]

RECURSIVE AssignsLoop(_, _, _, _, _, _)
AssignsLoop(data, dest, val, rm, cnt, n) ==
  IF n >= cnt \/ ~Evaluated(data) THEN data
  ELSE AssignsLoop(WriteAt(data, Off(dest, Unravel(n, dest.shape, rm)), val),
                   dest, val, rm, cnt, n + 1)

\* ops.assigns(dest, val): dest[idx] = val for every index of dest
Assigns(dest, val) ==
  [dest EXCEPT !.data = AssignsLoop(dest.data, dest, val, RowMajor(dest.shape),
                                    Count(dest.shape), 0)]

\* tensor.replaceTensorData(data): the view keeps its shape over a new buffer
ReplaceTensorData(v, data) == [v EXCEPT !.data = data]


\* ------------------------------------------------------------ the layer
NoLayer ==
  [kernelShape |-> <<>>, activation |-> "", borderMode |-> "", subsample |-> <<>>,
   dimOrdering |-> "", bias |-> FALSE, params |-> <<>>]

NoAttrs ==
  [nbFilter |-> 0, nbRow |-> 0, nbCol |-> 0, activation |-> "", borderMode |-> "",
   subsample |-> <<0, 0>>, dimOrdering |-> "", bias |-> FALSE]

\* a constructor that does not check dimOrdering
ConstructorNoDimCheck(attrs) ==
  IF ~(attrs.borderMode = "valid" \/ attrs.borderMode = "same")
    THEN [threw |-> TRUE, error |-> "Invalid borderMode.", layer |-> NoLayer]
  ELSE [threw |-> FALSE, error |-> "",
        layer |-> [kernelShape |-> <<attrs.nbFilter, attrs.nbRow, attrs.nbCol>>,
                   activation |-> attrs.activation,
                   borderMode |-> attrs.borderMode,
                   subsample |-> attrs.subsample,
                   dimOrdering |-> attrs.dimOrdering,
                   bias |-> attrs.bias,
                   params |-> IF attrs.bias THEN <<"W", "b">> ELSE <<"W">>]]

\* constructor(attrs): the layer, or the Error it throws
Constructor(attrs) ==
  IF ~(attrs.borderMode = "valid" \/ attrs.borderMode = "same")
    THEN [threw |-> TRUE, error |-> "Invalid borderMode.", layer |-> NoLayer]
  ELSE IF ~(attrs.dimOrdering = "tf" \/ attrs.dimOrdering = "th")
    THEN [threw |-> TRUE, error |-> "Only tf and th dim ordering are allowed.",
          layer |-> NoLayer]
  ELSE [threw |-> FALSE, error |-> "",
        layer |-> [kernelShape |-> <<attrs.nbFilter, attrs.nbRow, attrs.nbCol>>,
                   activation |-> attrs.activation,
                   borderMode |-> attrs.borderMode,
                   subsample |-> attrs.subsample,
                   dimOrdering |-> attrs.dimOrdering,
                   bias |-> attrs.bias,
                   params |-> IF attrs.bias THEN <<"W", "b">> ELSE <<"W">>]]

\* a _calcOutputShape that gives the odd pixel of padding to the before side
CalcOutputShapeOddBefore(l, x) ==
  LET inputRows == x.shape[1]
      inputCols == x.shape[2]
      nbFilter == l.kernelShape[1]
      nbRow == l.kernelShape[2]
      nbCol == l.kernelShape[3]
      outputRows == IF l.borderMode = "same"
                      THEN (inputRows + l.subsample[1] - 1) \div l.subsample[1]
                      ELSE (inputRows - nbRow + l.subsample[1]) \div l.subsample[1]
      outputCols == IF l.borderMode = "same"
                      THEN (inputCols + l.subsample[2] - 1) \div l.subsample[2]
                      ELSE (inputCols - nbCol + l.subsample[2]) \div l.subsample[2]
      paddingRow == IF l.borderMode = "same"
                      THEN Max(0, (outputRows - 1) * l.subsample[1] + nbRow - inputRows)
                      ELSE 0
      paddingCol == IF l.borderMode = "same"
                      THEN Max(0, (outputCols - 1) * l.subsample[2] + nbCol - inputCols)
                      ELSE 0
      paddingRowBefore == (paddingRow + 1) \div 2
      paddingRowAfter == paddingRow - paddingRowBefore
      paddingColBefore == (paddingCol + 1) \div 2
      paddingColAfter == paddingCol - paddingColBefore
  IN  [outputShape |-> <<outputRows, outputCols, nbFilter>>,
       inputPadding |-> <<paddingRowBefore, paddingRowAfter,
                          paddingColBefore, paddingColAfter>>]

\* _calcOutputShape(x): [outputShape, inputPadding] for the input view x
CalcOutputShape(l, x) ==
  LET inputRows == x.shape[1]
      inputCols == x.shape[2]
      nbFilter == l.kernelShape[1]
      nbRow == l.kernelShape[2]
      nbCol == l.kernelShape[3]
      outputRows == IF l.borderMode = "same"
                      THEN (inputRows + l.subsample[1] - 1) \div l.subsample[1]
                      ELSE (inputRows - nbRow + l.subsample[1]) \div l.subsample[1]
      outputCols == IF l.borderMode = "same"
                      THEN (inputCols + l.subsample[2] - 1) \div l.subsample[2]
                      ELSE (inputCols - nbCol + l.subsample[2]) \div l.subsample[2]
      paddingRow == IF l.borderMode = "same"
                      THEN Max(0, (outputRows - 1) * l.subsample[1] + nbRow - inputRows)
                      ELSE 0
      paddingCol == IF l.borderMode = "same"
                      THEN Max(0, (outputCols - 1) * l.subsample[2] + nbCol - inputCols)
                      ELSE 0
      paddingRowBefore == paddingRow \div 2
      paddingRowAfter == paddingRow - paddingRowBefore
      paddingColBefore == paddingCol \div 2
      paddingColAfter == paddingCol - paddingColBefore
  IN  [outputShape |-> <<outputRows, outputCols, nbFilter>>,
       inputPadding |-> <<paddingRowBefore, paddingRowAfter,
                          paddingColBefore, paddingColAfter>>]

\* a _padInput that copies the input to the origin of the padded array
PadInputAtOrigin(l, inputPadding, x) ==
  IF l.borderMode = "same"
    THEN LET inputRows == x.tensor.shape[1]
             inputCols == x.tensor.shape[2]
             inputChannels == x.tensor.shape[3]
             paddingRowBefore == inputPadding[1]
             paddingRowAfter == inputPadding[2]
             paddingColBefore == inputPadding[3]
             paddingColAfter == inputPadding[4]
             newRows == inputRows + paddingRowBefore + paddingRowAfter
             newCols == inputCols + paddingColBefore + paddingColAfter
             x0 == NewTensor(<<newRows, newCols, inputChannels>>)
             region == Hi(x0, <<inputRows, inputCols, inputChannels>>)
         IN  [x EXCEPT !.tensor = [x0 EXCEPT !.data = Assign(region, x.tensor).data]]
    ELSE x

\* _padInput(x): the Tensor object x after the call (the method returns x);
\* a Tensor object is [id, tensor, useWeblas]
PadInput(l, inputPadding, x) ==
  IF l.borderMode = "same"
    THEN LET inputRows == x.tensor.shape[1]
             inputCols == x.tensor.shape[2]
             inputChannels == x.tensor.shape[3]
             paddingRowBefore == inputPadding[1]
             paddingRowAfter == inputPadding[2]
             paddingColBefore == inputPadding[3]
             paddingColAfter == inputPadding[4]
             newRows == inputRows + paddingRowBefore + paddingRowAfter
             newCols == inputCols + paddingColBefore + paddingColAfter
             x0 == NewTensor(<<newRows, newCols, inputChannels>>)
             region == Lo(Hi(x0, <<inputRows + paddingRowBefore,
                                   inputCols + paddingColBefore, inputChannels>>),
                          <<paddingRowBefore, paddingColBefore, 0>>)
         IN  [x EXCEPT !.tensor = [x0 EXCEPT !.data = Assign(region, x.tensor).data]]
    ELSE x

\* an inner loop of _im2col that stops one window early (j < limit)
RECURSIVE ColLoopStrict(_, _, _, _)
ColLoopStrict(i, j, limit, step) ==
  IF j < limit THEN <<<<i, j>>>> \o ColLoopStrict(i, j + step, limit, step) ELSE <<>>

RECURSIVE ColLoop(_, _, _, _)
ColLoop(i, j, limit, step) ==
  IF j <= limit THEN <<<<i, j>>>> \o ColLoop(i, j + step, limit, step) ELSE <<>>

RECURSIVE RowLoop(_, _, _, _, _)
RowLoop(i, limitR, stepR, limitC, stepC) ==
  IF i <= limitR
    THEN ColLoop(i, 0, limitC, stepC) \o RowLoop(i + stepR, limitR, stepR, limitC, stepC)
    ELSE <<>>

\* the window starts (i, j) the loops of _im2col visit, in order
Windows(l, x) ==
  RowLoop(0, x.shape[1] - l.kernelShape[2], l.subsample[1],
          x.shape[2] - l.kernelShape[3], l.subsample[2])

RECURSIVE Im2colLoop(_, _, _, _, _)
Im2colLoop(imColsMat, l, x, wins, n) ==
  IF n >= Len(wins) \/ ~Evaluated(imColsMat.data) THEN imColsMat
  ELSE LET i == wins[n + 1][1]
           j == wins[n + 1][2]
           nbRow == l.kernelShape[2]
           nbCol == l.kernelShape[3]
           inputChannels == x.shape[3]
           patch == Assign(NewTensor(<<nbRow, nbCol, inputChannels>>),
                           Lo(Hi(x, <<i + nbRow, j + nbCol, inputChannels>>), <<i, j, 0>>))
           patchRaveled == ReplaceTensorData(NewTensor(<<nbRow * nbCol * inputChannels>>),
                                             patch.data)
       IN  Im2colLoop([imColsMat EXCEPT
                         !.data = Assign(Pick(imColsMat, <<n, -1>>), patchRaveled).data],
                      l, x, wins, n + 1)

\* _im2col(x) given this.outputShape: the [nbPatches, patchLen] patch matrix
Im2col(l, outputShape, x) ==
  LET nbPatches == outputShape[1] * outputShape[2]
      patchLen == l.kernelShape[2] * l.kernelShape[3] * x.shape[3]
  IN  Im2colLoop(NewTensor(<<nbPatches, patchLen>>), l, x, Windows(l, x), 0)

RECURSIVE W2rowLoop(_, _, _, _)
W2rowLoop(wRowsMat, l, W, n) ==
  IF n >= l.kernelShape[1] \/ ~Evaluated(wRowsMat.data) THEN wRowsMat
  ELSE LET nbRow == l.kernelShape[2]
           nbCol == l.kernelShape[3]
           inputChannels == W.shape[3]
           patch == Assign(NewTensor(<<nbRow, nbCol, inputChannels>>),
                           Pick(W, <<-1, -1, -1, n>>))
           patchRaveled == ReplaceTensorData(NewTensor(<<nbRow * nbCol * inputChannels>>),
                                             patch.data)
       IN  W2rowLoop([wRowsMat EXCEPT
                        !.data = Assign(Pick(wRowsMat, <<-1, n>>), patchRaveled).data],
                     l, W, n + 1)

\* a _w2row that flattens each filter column-first
W2rowSwapped(l, W) ==
  LET patchLen == l.kernelShape[2] * l.kernelShape[3] * W.shape[3]
  IN  W2rowLoop(NewTensor(<<patchLen, l.kernelShape[1]>>), l, Transpose(W, <<1, 0, 2, 3>>), 0)

\* _w2row(): the [patchLen, nbFilter] matrix of this.weights.W
W2row(l, W) ==
  LET patchLen == l.kernelShape[2] * l.kernelShape[3] * W.shape[3]
  IN  W2rowLoop(NewTensor(<<patchLen, l.kernelShape[1]>>), l, W, 0)

\* setWeights(weightsArr): weightsArr = [W, b] are the caller's Tensor
\* objects; this.weights keeps references to them, so the caller's list and
\* this.weights are the same objects afterwards
SetWeightsResult(l, weightsArr) ==
  LET W == IF l.dimOrdering = "th"
             THEN Transpose(weightsArr.W, <<2, 3, 1, 0>>)
             ELSE weightsArr.W
  IN  [weights |-> [set |-> TRUE, W |-> W, b |-> weightsArr.b]]


RECURSIVE BiasLoop(_, _, _, _)
BiasLoop(matMul, l, b, n) ==
  IF n >= l.kernelShape[1] \/ ~Evaluated(matMul.data) THEN matMul
  ELSE BiasLoop([matMul EXCEPT
                   !.data = Assigns(Pick(matMul, <<-1, n>>), Get(b, <<n>>)).data],
                l, b, n + 1)

RECURSIVE GemmSum(_, _, _, _, _)
GemmSum(a, b, p, f, k) ==
  IF k >= a.shape[2] THEN 0
  ELSE Add(Mul(Get(a, <<p, k>>), Get(b, <<k, f>>)), GemmSum(a, b, p, f, k + 1))

\* a gemm called with beta = 0: c = 1 * a * b
GemmNoBeta(c, a, b) ==
  [c EXCEPT !.data = [n \in 1..Len(c.data) |->
      GemmSum(a, b, (n - 1) \div c.shape[2], (n - 1) % c.shape[2], 0)]]

\* gemm(c, a, b, 1, 1): c = 1 * a * b + 1 * c
Gemm(c, a, b) ==
  [c EXCEPT !.data = [n \in 1..Len(c.data) |->
      Add(GemmSum(a, b, (n - 1) \div c.shape[2], (n - 1) % c.shape[2], 0), c.data[n])]]

RECURSIVE SgemmSum(_, _, _, _, _, _, _)
SgemmSum(A, B, N, K, p, f, k) ==
  IF k >= K THEN 0
  ELSE Add(Mul(ReadAt(A, p * K + k), ReadAt(B, k * N + f)),
           SgemmSum(A, B, N, K, p, f, k + 1))

\* weblas.sgemm(M, N, K, 1, A, B, 1, C): the flat M x N result of
\* 1 * A * B + 1 * C, C a row of N cells added to every row
Sgemm(M, N, K, A, B, C) ==
  [n \in 1..(M * N) |->
     Add(SgemmSum(A, B, N, K, (n - 1) \div N, (n - 1) % N, 0),
         ReadAt(C, (n - 1) % N))]

RECURSIVE OutputLoop(_, _, _, _)
OutputLoop(output, l, matMul, n) ==
  IF n >= l.kernelShape[1] \/ ~Evaluated(output.data) THEN output
  ELSE LET outputRows == output.shape[1]
           outputCols == output.shape[2]
           outputChannelRaveled == Assign(NewTensor(<<outputRows * outputCols>>),
                                          Pick(matMul, <<-1, n>>))
           outputChannel == ReplaceTensorData(NewTensor(<<outputRows, outputCols>>),
                                              outputChannelRaveled.data)
       IN  OutputLoop([output EXCEPT
                         !.data = Assign(Pick(output, <<-1, -1, n>>), outputChannel).data],
                      l, matMul, n + 1)

\* this.activation(x): the activation named at construction, in place
Activation(name, v) ==
  IF name = "relu"
    THEN [v EXCEPT !.data = [n \in 1..Len(v.data) |->
                               IF v.data[n] = NaN THEN NaN ELSE Max(0, v.data[n])]]
    ELSE v

EntryPerm == <<1, 2, 0>>

\* an exit reordering that repeats the entry reordering
ExitPermRepeated == <<1, 2, 0>>

ExitPerm == <<2, 0, 1>>

NoObject == [id |-> "", tensor |-> NoTensor, useWeblas |-> FALSE]

NoCall ==
  [op |-> "none", status |-> "ok", xIn |-> NoObject, xEntry |-> NoObject,
   xPad |-> NoObject, x |-> NoObject, outputShape |-> <<>>, inputPadding |-> <<>>,
   nbPatches |-> 0, windows |-> <<>>, imColsMat |-> NoTensor, wRowsMat |-> NoTensor,
   matMul |-> NoTensor, output |-> NoTensor, backend |-> "none", attrs |-> NoAttrs]

\* call(x), lines 240-263: assemble the output, activate, reorder; base is
\* the record of the call so far. strict: whether replaceTensorData rejects
\* an empty buffer (Tensor is not part of the layer's file; both outcomes kept).
CallOutput(l, strict, base, matMul) ==
  IF base.nbPatches = 0 /\ strict
    THEN [base EXCEPT !.status = "Error", !.matMul = matMul]
    ELSE LET output == OutputLoop(NewTensor(base.outputShape), l, matMul, 0)
             activated == Activation(l.activation, output)
         IN  [base EXCEPT !.matMul = matMul, !.output = output,
                          !.x.tensor = IF l.dimOrdering = "th"
                                         THEN Transpose(activated, ExitPerm)
                                         ELSE activated]

\* a backend fixed for the layer, whatever the input
BackendFixed(l, x) == "gemm"

\* call(x), line 225: the branch taken on the input Tensor's _useWeblas
Backend(l, x) == IF x.useWeblas THEN "weblas" ELSE "gemm"

\* call(x), lines 209-236: the bias rows and the matrix product
CallMatMul(l, weights, cache, strict, base) ==
  IF ~weights.set
    THEN [base EXCEPT !.status = "TypeError"]
    ELSE LET nbFilter == l.kernelShape[1]
             matMul0 == NewTensor(<<base.nbPatches, nbFilter>>)
             matMul1 == IF l.bias THEN BiasLoop(matMul0, l, weights.b, 0) ELSE matMul0
             imColsMat == base.imColsMat
             wRowsMat == cache.mat
         IN  CallOutput(l, strict,
               [base EXCEPT !.wRowsMat = wRowsMat,
                            !.backend = Backend(l, base.xIn)],
               IF Backend(l, base.xIn) = "weblas"
                 THEN [matMul1 EXCEPT !.data =
                         Sgemm(imColsMat.shape[1], wRowsMat.shape[2], imColsMat.shape[2],
                               imColsMat.data, wRowsMat.data,
                               IF l.bias THEN weights.b.data
                                         ELSE [i \in 1..wRowsMat.shape[2] |-> 0])]
                 ELSE Gemm(matMul1, imColsMat, wRowsMat))

\* call(x), line 205: the patch matrix of the padded input x2
CallIm2col(l, weights, cache, strict, base, x2) ==
  LET nbPatches == base.outputShape[1] * base.outputShape[2]
      patchLen == l.kernelShape[2] * l.kernelShape[3] * x2.tensor.shape[3]
  IN  IF ~CanAlloc(<<nbPatches, patchLen>>)
        THEN [base EXCEPT !.xPad = x2, !.x = x2, !.nbPatches = nbPatches,
                          !.status = "RangeError"]
        ELSE CallMatMul(l, weights, cache, strict,
               [base EXCEPT !.xPad = x2, !.x = x2, !.nbPatches = nbPatches,
                            !.windows = Windows(l, x2.tensor),
                            !.imColsMat = Im2col(l, base.outputShape, x2.tensor)])

\* call(x), lines 197-201: this.outputShape, this.inputPadding, the padding
CallShape(l, weights, cache, strict, base, shp) ==
  CallIm2col(l, weights, cache, strict,
             [base EXCEPT !.outputShape = shp.outputShape,
                          !.inputPadding = shp.inputPadding],
             PadInput(l, shp.inputPadding, base.xEntry))

\* call(x), lines 193-195: x1 is the Tensor object after the entry reordering
CallEntry(l, weights, cache, strict, x, x1) ==
  CallShape(l, weights, cache, strict,
            [NoCall EXCEPT !.op = "call", !.xIn = x, !.xEntry = x1],
            CalcOutputShape(l, x1.tensor))

\* The record of one call(x) on the Tensor object x: the object at each step
\* (xIn, xEntry, xPad, x at the end or at the throw), the intermediate
\* matrices, and how the call ended.
CallResult(l, weights, cache, x, strict) ==
  CallEntry(l, weights, cache, strict, x,
            IF l.dimOrdering = "th"
              THEN [x EXCEPT !.tensor = Transpose(x.tensor, EntryPerm)]
              ELSE x)

\* ------------------------------------------------------------- the state
VARIABLES
  ctor,          \* "none", "constructed" or "threw"
  ctorError,     \* the message of the Error the constructor threw
  layer,         \* the fields the constructor sets
  weights,       \* this.weights: [set, W, b]
  cache,         \* this._wRowsMat: [set, mat]
  outputShape,   \* this.outputShape (<<>> before the first call)
  inputPadding,  \* this.inputPadding (<<>> before the first call)
  supplied,      \* the W view of the caller's weight list as first handed over
  last           \* the record of the most recent operation

vars == <<ctor, ctorError, layer, weights, cache, outputShape, inputPadding, supplied, last>>

NoWeights == [set |-> FALSE, W |-> NoTensor, b |-> NoTensor]

NoCache == [set |-> FALSE, mat |-> NoTensor]

\* ------------------------------------------------------ bounded inputs
\* cell values: 0, -2, 2, -4, 4, ... shifted by the seed (pairwise distinct,
\* both signs and zero)
XData(seed, n) == [i \in 1..n |-> IF i % 2 = 0 THEN 0 - (i + seed) ELSE i + seed - 1]

WData(seed, n) == [i \in 1..n |-> i + 2 * seed]

BData(seed, n) == [i \in 1..n |-> 10 * i + seed]

Attrs(filters, kernels, strides, borderModes, dimOrderings, biases) ==
  [nbFilter : filters, nbRow : kernels, nbCol : kernels, activation : {"linear"},
   borderMode : borderModes, subsample : strides \X strides,
   dimOrdering : dimOrderings, bias : biases]

\* a weight list in the layer's own convention
WeightList(l, channels, seed) ==
  [W |-> NdArray(WData(seed, Prod(l.kernelShape) * channels),
                 IF l.dimOrdering = "th"
                   THEN <<l.kernelShape[1], channels, l.kernelShape[2], l.kernelShape[3]>>
                   ELSE <<l.kernelShape[2], l.kernelShape[3], channels, l.kernelShape[1]>>),
   b |-> IF l.bias THEN NdArray(BData(seed, l.kernelShape[1]), <<l.kernelShape[1]>>)
                   ELSE NoTensor]

\* an input Tensor object in the layer's own convention
Input(l, rows, cols, channels, seed, useWeblas) ==
  [id |-> "x",
   tensor |-> NdArray(XData(seed, rows * cols * channels),
                      IF l.dimOrdering = "th" THEN <<channels, rows, cols>>
                                              ELSE <<rows, cols, channels>>),
   useWeblas |-> useWeblas]

\* the channel counts an input may have: that of the stored W once set
\* (a mismatch is outside the layer's contract)
InputChannels(most) == IF weights.set THEN {weights.W.shape[3]} ELSE 1..most

\* replaceTensorData is reached with an empty buffer only when no patch exists
StrictChoices(x) ==
  LET t == IF layer.dimOrdering = "th" THEN Transpose(x.tensor, EntryPerm) ELSE x.tensor
      shp == CalcOutputShape(layer, t).outputShape
  IN  IF shp[1] * shp[2] = 0 THEN BOOLEAN ELSE {FALSE}

\* ---------------------------------------------------------------- actions
InitLayer(attrsSet) ==
  /\ \E attrs \in attrsSet : layer = Constructor(attrs).layer
  /\ ctor = "constructed"
  /\ ctorError = ""
  /\ weights = NoWeights
  /\ cache = NoCache
  /\ outputShape = <<>>
  /\ inputPadding = <<>>
  /\ supplied = NoTensor
  /\ last = NoCall

SetWeights(weightsArr) ==
  LET r == SetWeightsResult(layer, weightsArr)
  IN  /\ weights' = r.weights
      /\ cache' = [set |-> TRUE, mat |-> W2row(layer, weights'.W)]
      /\ last' = [NoCall EXCEPT !.op = "setWeights"]
      /\ UNCHANGED <<ctor, ctorError, layer, outputShape, inputPadding>>

CallOn(x, strict) ==
  LET r == CallResult(layer, weights, cache, x, strict)
  IN  /\ last' = r
      /\ outputShape' = last'.outputShape
      /\ inputPadding' = last'.inputPadding
      /\ UNCHANGED <<ctor, ctorError, layer, weights, cache, supplied>>

\* --- the layer's life: weight assignments and calls on either backend
Init ==
  InitLayer(Attrs(1..MaxFilters, 1..MaxKernel, {1}, {"valid", "same"},
                  {"tf", "th"}, BOOLEAN))

\* setWeights with a weight list the caller has just built
SetWeightsNew ==
  \E channels \in 1..MaxChannels, seed \in 0..MaxSeed :
    LET weightsArr == WeightList(layer, channels, seed)
    IN  /\ SetWeights(weightsArr)
        /\ supplied' = weightsArr.W

\* setWeights with the list handed over before: its Tensor objects are the
\* ones this.weights refers to
SetWeightsSame ==
  /\ weights.set
  /\ SetWeights([W |-> weights.W, b |-> weights.b])
  /\ UNCHANGED supplied

Call ==
  \E rows \in 1..LifeDim, cols \in 1..LifeDim, channels \in InputChannels(MaxChannels),
     seed \in 0..MaxSeed, useWeblas \in BOOLEAN :
    LET x == Input(layer, rows, cols, channels, seed, useWeblas)
    IN  \E strict \in StrictChoices(x) : CallOn(x, strict)

Next == SetWeightsNew \/ SetWeightsSame \/ Call

Spec == Init /\ [][Next]_vars

\* --- convolution: channelsLast layers with weights, the reference backend
InitConv ==
  InitLayer(Attrs(1..MaxFilters, 1..MaxKernel, 1..MaxStride, {"valid", "same"},
                  {"tf"}, BOOLEAN))

ConvCall ==
  /\ weights.set
  /\ \E rows \in 1..MaxDim, cols \in 1..MaxDim, channels \in InputChannels(MaxChannels),
        seed \in 0..MaxSeed :
       LET x == Input(layer, rows, cols, channels, seed, FALSE)
       IN  \E strict \in StrictChoices(x) : CallOn(x, strict)

NextConv == SetWeightsNew \/ ConvCall

SpecConv == InitConv /\ [][NextConv]_vars

\* --- shapes: one filter, kernels up to ShapeKernel (larger than some inputs)
InitShape ==
  InitLayer(Attrs({1}, 1..ShapeKernel, 1..MaxStride, {"valid", "same"},
                  {"tf", "th"}, {FALSE}))

SetWeightsOne ==
  LET weightsArr == WeightList(layer, 1, 0)
  IN  /\ SetWeights(weightsArr)
      /\ supplied' = weightsArr.W

ShapeCall ==
  \E rows \in 1..ShapeDim, cols \in 1..ShapeDim, channels \in InputChannels(MaxChannels) :
    LET x == Input(layer, rows, cols, channels, 0, FALSE)
    IN  \E strict \in StrictChoices(x) : CallOn(x, strict)

NextShape == SetWeightsOne \/ ShapeCall

SpecShape == InitShape /\ [][NextShape]_vars

\* --- construction from any attributes
InitCtor ==
  /\ ctor = "none"
  /\ ctorError = ""
  /\ layer = NoLayer
  /\ weights = NoWeights
  /\ cache = NoCache
  /\ outputShape = <<>>
  /\ inputPadding = <<>>
  /\ supplied = NoTensor
  /\ last = NoCall

Construct ==
  /\ ctor = "none"
  /\ \E attrs \in Attrs((0 - 1)..CtorMax, (0 - 1)..CtorMax, (0 - 1)..CtorMax,
                        {"valid", "same", "full"}, {"tf", "th", "nhwc"}, BOOLEAN) :
       LET r == Constructor(attrs)
       IN  /\ ctor' = IF r.threw THEN "threw" ELSE "constructed"
           /\ ctorError' = r.error
           /\ layer' = r.layer
           /\ last' = [NoCall EXCEPT !.op = "constructor", !.attrs = attrs]
  /\ UNCHANGED <<weights, cache, outputShape, inputPadding, supplied>>

NextCtor == Construct

SpecCtor == InitCtor /\ [][NextCtor]_vars


\* ================================================================ claims
\* Arithmetic of the claims, stated by its defining inequalities.
Abs(a) == IF a < 0 THEN 0 - a ELSE a

FloorDiv(a, b) == CHOOSE q \in (0 - Abs(a) - 1)..(Abs(a) + 1) : q * b <= a /\ a < (q + 1) * b

CeilDiv(a, b) == CHOOSE q \in 0..Abs(a) : (q - 1) * b < a /\ a <= q * b

RECURSIVE SumSeq(_)
SumSeq(q) == IF Len(q) = 0 THEN 0 ELSE Head(q) + SumSeq(Tail(q))

\* the last call's input [H, W, C] as the caller laid it out
IsTh == layer.dimOrdering = "th"

InRows == IF IsTh THEN last.xIn.tensor.shape[2] ELSE last.xIn.tensor.shape[1]

InCols == IF IsTh THEN last.xIn.tensor.shape[3] ELSE last.xIn.tensor.shape[2]

InChannels == IF IsTh THEN last.xIn.tensor.shape[1] ELSE last.xIn.tensor.shape[3]

NbFilter == layer.kernelShape[1]

KernelRows == layer.kernelShape[2]

KernelCols == layer.kernelShape[3]

\* output extent and padding of one axis as the specification states them
SpecOut(n, kernel, stride) ==
  IF layer.borderMode = "same" THEN CeilDiv(n, stride)
                               ELSE FloorDiv(n - kernel + stride, stride)

SpecTotalPad(n, kernel, stride) ==
  IF layer.borderMode = "same"
    THEN Max(0, (SpecOut(n, kernel, stride) - 1) * stride + kernel - n)
    ELSE 0

SpecPadBefore(n, kernel, stride) == FloorDiv(SpecTotalPad(n, kernel, stride), 2)

SpecPadAfter(n, kernel, stride) ==
  SpecTotalPad(n, kernel, stride) - SpecPadBefore(n, kernel, stride)

OutRows == SpecOut(InRows, KernelRows, layer.subsample[1])

OutCols == SpecOut(InCols, KernelCols, layer.subsample[2])

\* the kernel fits the input (valid mode), or the input is padded (same mode)
KernelFits ==
  layer.borderMode = "same" \/ (InRows >= KernelRows /\ InCols >= KernelCols)

\* ---- C1
\* cell (row, col, ch) of the zero-padded channelsLast input of the last call
XPadAt(row, col, ch) ==
  LET r == row - SpecPadBefore(InRows, KernelRows, layer.subsample[1])
      c == col - SpecPadBefore(InCols, KernelCols, layer.subsample[2])
  IN  IF r >= 0 /\ r < InRows /\ c >= 0 /\ c < InCols
        THEN last.xIn.tensor.data[(r * InCols + c) * InChannels + ch + 1]
        ELSE 0

\* cell (r, c, ch, f) of the canonical row-major W
WAt(r, c, ch, f) ==
  weights.W.data[((r * KernelCols + c) * InChannels + ch) * NbFilter + f + 1]

DirectConv(i, j, f) ==
  (IF layer.bias THEN weights.b.data[f + 1] ELSE 0)
  + SumSeq([k \in 1..(KernelRows * KernelCols * InChannels) |->
      LET r == (k - 1) \div (KernelCols * InChannels)
          c == ((k - 1) \div InChannels) % KernelCols
          ch == (k - 1) % InChannels
      IN  XPadAt(i * layer.subsample[1] + r, j * layer.subsample[2] + c, ch)
            * WAt(r, c, ch, f)])

\* C1: on a channelsLast layer with weights set and the reference backend,
\* when the kernel fits (valid) or in same mode, the output of call before
\* activation is [outRows, outCols, F] and its cell (i, j, f) is bias[f] (0
\* without bias) plus the sum over the kernel window and the channels of
\* xpad[i*strideRows + r, j*strideCols + c, ch] * W[r, c, ch, f].
C1_ConvEqualsDirect ==
  (/\ last.op = "call"
   /\ ~IsTh
   /\ weights.set
   /\ ~last.xIn.useWeblas
   /\ KernelFits)
  => /\ last.status = "ok"
     /\ last.output.shape = <<OutRows, OutCols, NbFilter>>
     /\ Len(last.output.data) = OutRows * OutCols * NbFilter
     /\ \A i \in 0..(OutRows - 1), j \in 0..(OutCols - 1), f \in 0..(NbFilter - 1) :
          last.output.data[(i * OutCols + j) * NbFilter + f + 1] = DirectConv(i, j, f)

\* a same-mode call with bias, two filters, two channels, a 2 x 1 kernel,
\* strides (1, 2), padding and several output cells
C1_Witness ==
  /\ last.op = "call"
  /\ last.status = "ok"
  /\ ~IsTh
  /\ ~last.xIn.useWeblas
  /\ layer.borderMode = "same"
  /\ layer.bias
  /\ layer.kernelShape = <<2, 2, 1>>
  /\ layer.subsample = <<1, 2>>
  /\ last.xIn.tensor.shape = <<3, 3, 2>>
  /\ last.inputPadding = <<0, 1, 0, 0>>
  /\ last.output.shape = <<3, 2, 2>>

\* ---- C2
\* C2: after every call, this.outputShape and this.inputPadding are those of
\* that call's input: floor((n - kernel + stride) / stride) and no padding in
\* valid mode; ceil(n / stride), total padding max(0, (out - 1)*stride +
\* kernel - n), floor(total / 2) before and the rest after in same mode; rows
\* and columns alike.
C2_ShapeOfThisInput ==
  last.op = "call"
  => /\ outputShape = <<OutRows, OutCols, NbFilter>>
     /\ inputPadding =
          <<SpecPadBefore(InRows, KernelRows, layer.subsample[1]),
            SpecPadAfter(InRows, KernelRows, layer.subsample[1]),
            SpecPadBefore(InCols, KernelCols, layer.subsample[2]),
            SpecPadAfter(InCols, KernelCols, layer.subsample[2])>>
     /\ (layer.borderMode = "valid" => inputPadding = <<0, 0, 0, 0>>)

\* a same-mode call whose row padding is odd (the odd pixel after) and whose
\* column stride is 2
C2_Witness ==
  /\ last.op = "call"
  /\ layer.borderMode = "same"
  /\ layer.subsample = <<1, 2>>
  /\ inputPadding[1] = 0
  /\ inputPadding[2] = 1
  /\ outputShape[1] = 3
  /\ outputShape[2] = 2

\* ---- C3
\* mat is the [kernelRows*kernelCols*Cin, nbFilter] flatten of the stored view
\* W, Cin its third extent: row (r*kernelCols + c)*Cin + ch, column f holds
\* cell (r, c, ch, f) of W
IsFlatten(mat, W) ==
  LET cin == W.shape[3]
  IN  /\ mat.shape = <<KernelRows * KernelCols * cin, NbFilter>>
      /\ mat.offset = 0
      /\ Len(mat.data) = KernelRows * KernelCols * cin * NbFilter
      /\ \A r \in 0..(KernelRows - 1), c \in 0..(KernelCols - 1),
            ch \in 0..(cin - 1), f \in 0..(NbFilter - 1) :
           mat.data[((r * KernelCols + c) * cin + ch) * NbFilter + f + 1]
             = Get(W, <<r, c, ch, f>>)

\* C3 as stated: every call multiplies by the flatten of the assigned W,
\* an unset cache being computed before it is used.
C3_LazyCache ==
  last.op = "call"
  => /\ last.backend # "none"
     /\ IsFlatten(last.wRowsMat, weights.W)

\* C3 amended: the cache is computed by setWeights, at every assignment, and
\* never by call. It is set exactly when the weights are, it is then the
\* flatten of the stored W, a call that reaches the product multiplies by it
\* and leaves it as it was, a call that throws while allocating the patch
\* matrix reads no weight matrix, and a call on a layer without weights
\* computes nothing and throws.
C3_EagerCache ==
  /\ cache.set = weights.set
  /\ weights.set => IsFlatten(cache.mat, weights.W)
  /\ (last.op = "call" /\ weights.set /\ last.status # "RangeError")
       => (last.backend # "none" /\ last.wRowsMat = cache.mat)
  /\ (last.op = "call" /\ last.status = "RangeError")
       => (last.backend = "none" /\ last.wRowsMat = NoTensor)
  /\ (last.op = "call" /\ ~weights.set)
       => (last.backend = "none" /\ last.status \in {"TypeError", "RangeError"})

\* a call that succeeded on a channelsFirst layer with two filters, two
\* channels and a 1 x 2 kernel
C3_Witness ==
  /\ last.op = "call"
  /\ last.status = "ok"
  /\ IsTh
  /\ layer.kernelShape = <<2, 1, 2>>
  /\ weights.W.shape = <<1, 2, 2, 2>>
  /\ last.wRowsMat = cache.mat
  /\ cache.mat.shape = <<4, 2>>

\* ---- C4
\* C4: on a channelsFirst layer the stored W is the canonical
\* [kernelRows, kernelCols, inputChannels, nbFilter] reordering of the
\* [nbFilter, inputChannels, kernelRows, kernelCols] tensor the caller
\* supplied, whatever weight assignments were made.
C4_CanonicalOnce ==
  (IsTh /\ weights.set)
  => LET cin == supplied.shape[2]
     IN  /\ weights.W.shape = <<KernelRows, KernelCols, cin, NbFilter>>
         /\ \A r \in 0..(KernelRows - 1), c \in 0..(KernelCols - 1),
               ch \in 0..(cin - 1), f \in 0..(NbFilter - 1) :
              Get(weights.W, <<r, c, ch, f>>)
                = supplied.data[((f * cin + ch) * KernelRows + r) * KernelCols + c + 1]

\* ---- C5
\* C5 as stated: the padder leaves the Tensor the caller passed unchanged.
C5_CallerTensorUnchanged ==
  last.op = "call" => last.xPad = last.xEntry

\* C5 amended: in same mode _padInput allocates a zero-filled row-major
\* [H + top + bottom, W + left + right, C] array, copies the input into the
\* region at (top, left, 0), and installs it in the Tensor object the caller
\* passed, which it returns: the caller's Tensor is changed. In valid mode
\* the Tensor is returned as it was.
C5_PadInPlace ==
  last.op = "call"
  => LET a == last.xEntry.tensor
         p == last.xPad.tensor
         top == inputPadding[1]
         bottom == inputPadding[2]
         left == inputPadding[3]
         right == inputPadding[4]
     IN  /\ last.xPad.id = last.xIn.id
         /\ layer.borderMode = "valid" => last.xPad = last.xEntry
         /\ layer.borderMode = "same" =>
              /\ p.shape = <<a.shape[1] + top + bottom, a.shape[2] + left + right, a.shape[3]>>
              /\ p.stride = RowMajor(p.shape)
              /\ p.offset = 0
              /\ Len(p.data) = Prod(p.shape)
              /\ \A r \in 0..(p.shape[1] - 1), c \in 0..(p.shape[2] - 1),
                    ch \in 0..(p.shape[3] - 1) :
                   p.data[(r * p.shape[2] + c) * p.shape[3] + ch + 1]
                     = IF /\ r >= top /\ r < top + a.shape[1]
                          /\ c >= left /\ c < left + a.shape[2]
                         THEN Get(a, <<r - top, c - left, ch>>)
                         ELSE 0

\* a same-mode call on a two-channel input padded above, below and on the
\* right
C5_Witness ==
  /\ last.op = "call"
  /\ layer.borderMode = "same"
  /\ inputPadding = <<1, 1, 0, 1>>
  /\ last.xEntry.tensor.shape = <<2, 3, 2>>
  /\ last.xPad.tensor.shape = <<4, 4, 2>>
  /\ last.xPad # last.xEntry

\* ---- C6
\* C6: on a channelsFirst layer, the exit reordering applied after the entry
\* reordering gives back the tensor, cell for cell: for the input of every
\* call and for its result.
C6_RoundTrip ==
  (last.op = "call" /\ IsTh)
  => /\ last.xEntry.tensor.shape
          = <<last.xIn.tensor.shape[2], last.xIn.tensor.shape[3], last.xIn.tensor.shape[1]>>
     /\ Transpose(last.xEntry.tensor, ExitPerm) = last.xIn.tensor
     /\ Transpose(Transpose(last.x.tensor, EntryPerm), ExitPerm) = last.x.tensor
     /\ \A ch \in 0..(InChannels - 1), r \in 0..(InRows - 1), c \in 0..(InCols - 1) :
          /\ Get(last.xEntry.tensor, <<r, c, ch>>) = Get(last.xIn.tensor, <<ch, r, c>>)
          /\ Get(Transpose(last.xEntry.tensor, ExitPerm), <<ch, r, c>>)
               = last.xIn.tensor.data[(ch * InRows + r) * InCols + c + 1]

\* a call on a channelsFirst layer with an input [2, 1, 2], whose three
\* reorderings differ
C6_Witness ==
  /\ last.op = "call"
  /\ last.status = "ok"
  /\ IsTh
  /\ last.xIn.tensor.shape = <<2, 1, 2>>
  /\ last.xEntry.tensor.shape = <<1, 2, 2>>
  /\ last.xEntry.tensor # last.xIn.tensor

\* ---- C7
\* C7 as stated: every call on the layer uses the same backend.
C7_SameBackend ==
  [][(last.backend # "none" /\ last'.backend # "none") => last'.backend = last.backend]_vars

\* C7 amended: the backend is chosen in each call, by the _useWeblas flag of
\* the input Tensor (weblas.sgemm when it is set, gemm otherwise); the
\* constructor takes no backend flag, and two calls on one layer may use
\* different backends.
C7_BackendPerCall ==
  (last.op = "call" /\ weights.set /\ last.status # "RangeError")
  => last.backend = (IF last.xIn.useWeblas THEN "weblas" ELSE "gemm")

\* a call that took the weblas branch
C7_Witness ==
  /\ last.op = "call"
  /\ last.status = "ok"
  /\ last.xIn.useWeblas
  /\ last.backend = "weblas"

\* ---- C8
IsInvalid(attrs) ==
  \/ attrs.borderMode \notin {"valid", "same"}
  \/ attrs.dimOrdering \notin {"tf", "th"}
  \/ attrs.nbFilter < 1
  \/ attrs.nbRow < 1
  \/ attrs.nbCol < 1
  \/ attrs.subsample[1] < 1
  \/ attrs.subsample[2] < 1

\* C8 as stated: construction fails on every violation of the configuration
\* surface.
C8_RejectsInvalid ==
  (last.op = "constructor" /\ IsInvalid(last.attrs)) => ctor = "threw"

\* C8 amended: construction validates borderMode and dimOrdering only. It
\* throws exactly when one of the two is invalid, and no layer is built then;
\* nbFilter, nbRow, nbCol and subsample are stored unchecked, so a layer is
\* built from values below 1.
C8_ValidatesModes ==
  last.op = "constructor"
  => /\ (ctor = "threw") = (\/ last.attrs.borderMode \notin {"valid", "same"}
                            \/ last.attrs.dimOrdering \notin {"tf", "th"})
     /\ ctor = "threw" => (layer = NoLayer /\ ctorError # "")
     /\ ctor # "threw" =>
          /\ ctor = "constructed"
          /\ layer.kernelShape = <<last.attrs.nbFilter, last.attrs.nbRow, last.attrs.nbCol>>
          /\ layer.subsample = last.attrs.subsample
          /\ layer.borderMode = last.attrs.borderMode
          /\ layer.dimOrdering = last.attrs.dimOrdering

\* a layer built with no filter, an empty kernel and a zero stride
C8_Witness ==
  /\ ctor = "constructed"
  /\ layer.kernelShape = <<0, 0, 0>>
  /\ layer.subsample = <<0, 0>>

\* ---- C9
\* C9: in valid mode, when the input has fewer rows than the kernel or fewer
\* columns, the call produces outRows * outCols = 0 patches and an output
\* without cells.
C9_EmptyOutput ==
  (/\ last.op = "call"
   /\ layer.borderMode = "valid"
   /\ (InRows < KernelRows \/ InCols < KernelCols))
  => /\ last.nbPatches = 0
     /\ Len(last.imColsMat.data) = 0
     /\ Len(last.x.tensor.data) = 0 \/ last.status # "ok"

\* ---- C10
\* C10: when the kernel fits (valid) or in same mode, the loops of _im2col
\* visit exactly outRows * outCols windows, the n-th being that of output
\* position (n div outCols, n mod outCols), starting at (i*strideRows,
\* j*strideCols) and lying inside the padded input; row n of the patch
\* matrix holds that window, so every row is written, once, and no write
\* falls outside the matrix.
C10_WindowsMatchOutput ==
  (last.op = "call" /\ KernelFits)
  => LET p == last.xPad.tensor
         outRows == outputShape[1]
         outCols == outputShape[2]
         patchLen == KernelRows * KernelCols * p.shape[3]
     IN  /\ last.status # "RangeError"
         /\ Len(last.windows) = outRows * outCols
         /\ last.nbPatches = Len(last.windows)
         /\ last.imColsMat.shape = <<Len(last.windows), patchLen>>
         /\ Len(last.imColsMat.data) = Len(last.windows) * patchLen
         /\ \A n \in 0..(Len(last.windows) - 1) :
              LET i == last.windows[n + 1][1]
                  j == last.windows[n + 1][2]
              IN  /\ i = (n \div outCols) * layer.subsample[1]
                  /\ j = (n % outCols) * layer.subsample[2]
                  /\ i + KernelRows <= p.shape[1]
                  /\ j + KernelCols <= p.shape[2]
                  /\ \A r \in 0..(KernelRows - 1), c \in 0..(KernelCols - 1),
                        ch \in 0..(p.shape[3] - 1) :
                       last.imColsMat.data[n * patchLen
                           + (r * KernelCols + c) * p.shape[3] + ch + 1]
                         = Get(p, <<i + r, j + c, ch>>)

\* a same-mode call with strides (2, 1), a 3 x 2 kernel and six windows
C10_Witness ==
  /\ last.op = "call"
  /\ layer.borderMode = "same"
  /\ layer.subsample = <<2, 1>>
  /\ layer.kernelShape = <<1, 3, 2>>
  /\ InRows = 3
  /\ InCols = 3
  /\ InChannels = 2
  /\ Len(last.windows) = 6
  /\ last.windows[6] = <<2, 2>>

====
